---- MODULE Spec2Model ----
(***************************************************************************)
(* A model of t_sweeper.py (uppasd_sweeper): the temperature sweep driver. *)
(*                                                                         *)
(* Representation.                                                         *)
(*  - A Python str is a sequence of one-character strings.                 *)
(*  - A Python float is an integer count of halves (310.5 is 621).  Every  *)
(*    number the model draws is a multiple of 0.5 of small magnitude, on   *)
(*    which IEEE-754 double +, -, *, /, ceil, round and comparison are     *)
(*    exact, so the integer arithmetic below is the program's arithmetic   *)
(*    on these inputs.  A Python int n used as a float is 2*n.             *)
(*  - A directory is a function from relative file paths to files; a path  *)
(*    is a record [parent, name], a file is [text, content] where text     *)
(*    says whether the bytes decode as text.                               *)
(***************************************************************************)
EXTENDS Integers, Sequences, FiniteSets, TLC

\* ------------------------------------------------------------------ strings

Digits == <<"0", "1", "2", "3", "4", "5", "6", "7", "8", "9">>

IsDigit(c) == \E d \in 1..10 : Digits[d] = c

DigitVal(c) == (CHOOSE d \in 1..10 : Digits[d] = c) - 1

\* str.isspace for the characters the model draws
IsSpace(c) == c \in {" ", "\t", "\n"}

RECURSIVE LStrip(_)
LStrip(s) ==
    IF s # <<>> /\ IsSpace(Head(s)) THEN LStrip(Tail(s)) ELSE s

RECURSIVE RStrip(_)
RStrip(s) ==
    IF s # <<>> /\ IsSpace(s[Len(s)]) THEN RStrip(SubSeq(s, 1, Len(s) - 1)) ELSE s

\* str.strip()
Strip(s) == RStrip(LStrip(s))

\* str.startswith(p)
StartsWith(s, p) == Len(s) >= Len(p) /\ SubSeq(s, 1, Len(p)) = p

\* str.endswith(p)
EndsWith(s, p) == Len(s) >= Len(p) /\ SubSeq(s, Len(s) - Len(p) + 1, Len(s)) = p

\* `sub in s`
Contains(s, sub) ==
    \E i \in 1..(Len(s) - Len(sub) + 1) : SubSeq(s, i, i + Len(sub) - 1) = sub

\* s.find(c) + 1 for a character c that occurs in s
FirstIndex(s, c) == CHOOSE i \in 1..Len(s) : s[i] = c /\ \A j \in 1..(i - 1) : s[j] # c

\* str.lower() on the letters the model draws in upper case
LowerChar(c) ==
    CASE c = "E" -> "e"
      [] c = "X" -> "x"
      [] c = "B" -> "b"
      [] c = "T" -> "t"
      [] c = "M" -> "m"
      [] c = "P" -> "p"
      [] OTHER -> c

Lower(s) == [i \in 1..Len(s) |-> LowerChar(s[i])]

RECURSIVE NatToStr(_)
NatToStr(n) ==
    IF n < 10 THEN <<Digits[n + 1]>> ELSE NatToStr(n \div 10) \o <<Digits[(n % 10) + 1]>>

\* f"{n}" for an int n
IntToStr(n) == IF n < 0 THEN <<"-">> \o NatToStr(-n) ELSE NatToStr(n)

RECURSIVE ZeroFill(_, _)
ZeroFill(s, width) == IF Len(s) >= width THEN s ELSE ZeroFill(<<"0">> \o s, width)

\* f"{n:04d}": the sign counts towards the width and stays in front of the zeros
Format04d(n) ==
    IF n < 0 THEN <<"-">> \o ZeroFill(NatToStr(-n), 3) ELSE ZeroFill(NatToStr(n), 4)

\* ------------------------------------------------------------------ numbers

RECURSIVE DigitsToNat(_)
DigitsToNat(s) ==
    IF s = <<>> THEN 0 ELSE 10 * DigitsToNat(SubSeq(s, 1, Len(s) - 1)) + DigitVal(s[Len(s)])

RECURSIVE Pow10(_)
Pow10(k) == IF k = 0 THEN 1 ELSE 10 * Pow10(k - 1)

AllDigits(s) == \A i \in 1..Len(s) : IsDigit(s[i])

ValueError == [ok |-> FALSE, val |-> 0]

Value(v) == [ok |-> TRUE, val |-> v]

\* the text without a leading sign, and the sign
Unsigned(s) == IF s # <<>> /\ Head(s) \in {"-", "+"} THEN Tail(s) ELSE s

SignOf(s) == IF s # <<>> /\ Head(s) = "-" THEN -1 ELSE 1

\* int(text): optional surrounding blanks, optional sign, decimal digits
ParseInt(text) ==
    LET s == Strip(text)
        u == Unsigned(s)
    IN  IF u # <<>> /\ AllDigits(u) THEN Value(SignOf(s) * DigitsToNat(u)) ELSE ValueError

\* float(text), in halves: optional sign, digits with at most one point and at
\* least one digit (the exponent, inf and nan forms are not drawn)
ParseFloat(text) ==
    LET s == Strip(text)
        u == Unsigned(s)
        hasPoint == \E i \in 1..Len(u) : u[i] = "."
        p == IF hasPoint THEN FirstIndex(u, ".") ELSE Len(u) + 1
        ip == SubSeq(u, 1, p - 1)
        fp == SubSeq(u, p + 1, Len(u))
    IN  IF AllDigits(ip) /\ AllDigits(fp) /\ Len(ip) + Len(fp) > 0
        THEN Value(SignOf(s) * (2 * DigitsToNat(ip) + (2 * DigitsToNat(fp)) \div Pow10(Len(fp))))
        ELSE ValueError

\* float(n) for an int n
FloatOfInt(n) == 2 * n

\* int(x) for a float x: truncation towards zero
IntOfFloat(h) == IF h >= 0 THEN h \div 2 ELSE -((-h) \div 2)

\* round(x) for a float x: nearest integer, ties to the even one
Round(h) ==
    LET q == h \div 2
    IN  IF h % 2 = 0 THEN q ELSE IF q % 2 = 0 THEN q ELSE q + 1

\* ceil(a / b) for b # 0
CeilDiv(a, b) == IF b > 0 THEN -((-a) \div b) ELSE -(a \div (-b))

\* ------------------------------------------------------------------ names

K_tmin == <<"t", "m", "i", "n">>

K_tmax == <<"t", "m", "a", "x">>

K_tstep == <<"t", "s", "t", "e", "p">>

K_steps == <<"s", "t", "e", "p", "s">>

K_binary == <<"b", "i", "n", "a", "r", "y">>

K_base == <<"b", "a", "s", "e">>

K_file == <<"f", "i", "l", "e">>

DefaultTmin == 0

DefaultTmax == 500

DefaultTstep == 100

DefaultSteps == 11

DefaultBinary == <<".", "/", "u", "p", "p", "a", "s", "d">>

DefaultBase == <<"B", "a", "s", "e">>

\* args.file when --file is not given: None, which is as false as ""
None == <<>>

TOKEN == <<"T", "E", "M", "P">>

BinarySuffixes == {<<".", "e", "x", "e">>, <<".", "b", "i", "n">>}

OutLog == [parent |-> "", name |-> <<"o", "u", "t", ".", "l", "o", "g">>]

\* ------------------------------------------------------------------ config file

\* d[k] = v on a dict
Put(d, k, v) == [x \in (DOMAIN d) \cup {k} |-> IF x = k THEN v ELSE d[x]]

EmptyDict == [x \in {} |-> <<>>]

\* line.strip().split("=", 1) for a line that holds "="
SplitKey(line) == SubSeq(Strip(line), 1, FirstIndex(Strip(line), "=") - 1)

SplitValue(line) == SubSeq(Strip(line), FirstIndex(Strip(line), "=") + 1, Len(Strip(line)))

RECURSIVE parse_config_lines(_, _)
parse_config_lines(lines, config) ==
    IF lines = <<>> THEN config
    ELSE LET line == Head(lines)
         IN  IF Contains(line, <<"=">>) /\ ~StartsWith(Strip(line), <<"#">>)
             THEN parse_config_lines(Tail(lines),
                      Put(config, Strip(SplitKey(line)), Strip(SplitValue(line))))
             ELSE parse_config_lines(Tail(lines), config)

parse_config_file(lines) == parse_config_lines(lines, EmptyDict)

\* ------------------------------------------------------------------ argparse

\* type=float / type=int / type=str applied to a flag's text
Convert(type, text) ==
    CASE type = "float" -> ParseFloat(text)
      [] type = "int" -> ParseInt(text)
      [] OTHER -> Value(text)

ArgTypes ==
    [k \in {K_tmin, K_tmax, K_tstep, K_steps, K_binary, K_base, K_file} |->
        CASE k \in {K_tmin, K_tmax, K_tstep} -> "float"
          [] k = K_steps -> "int"
          [] OTHER -> "str"]

ArgDefaults ==
    [k \in {K_tmin, K_tmax, K_tstep, K_steps, K_binary, K_base, K_file} |->
        CASE k = K_tmin -> FloatOfInt(DefaultTmin)
          [] k = K_tmax -> FloatOfInt(DefaultTmax)
          [] k = K_tstep -> FloatOfInt(DefaultTstep)
          [] k = K_steps -> DefaultSteps
          [] k = K_binary -> DefaultBinary
          [] k = K_base -> DefaultBase
          [] OTHER -> None]

\* parser.parse_args(): every declared argument becomes an attribute, from the
\* command line when the flag is there and from its default otherwise
parse_args(cmdline) ==
    [k \in DOMAIN ArgTypes |->
        IF k \in DOMAIN cmdline THEN Convert(ArgTypes[k], cmdline[k]).val ELSE ArgDefaults[k]]

\* argparse rejects a flag whose text its type cannot convert
ArgsValid(cmdline) == \A k \in DOMAIN cmdline : Convert(ArgTypes[k], cmdline[k]).ok

\* ------------------------------------------------------------------ mesh

\* Arange with the length rounded down: the end point is lost whenever the
\* range is not a whole number of steps
ArangeFloor(start, stop, step) ==
    LET n == -CeilDiv(start - stop, step)
    IN  [i \in 1..(IF n > 0 THEN n ELSE 0) |-> start + (i - 1) * step]

\* np.arange(start, stop, step) for step # 0: ceil((stop - start) / step) values
\* start + i * step
Arange(start, stop, step) ==
    LET n == CeilDiv(stop - start, step)
    IN  [i \in 1..(IF n > 0 THEN n ELSE 0) |-> start + (i - 1) * step]

\* np.linspace(start, stop, num) for num >= 0: start + i * (stop - start) / (num - 1);
\* the quotient is taken in halves (exact whenever the spacing is a multiple of 0.5)
Linspace(start, stop, num) ==
    [i \in 1..num |-> IF num = 1 THEN start ELSE start + ((i - 1) * (stop - start)) \div (num - 1)]

\* SelectMode with the two tests in the other order
SelectModeCountFirst(names) ==
    IF \E arg \in names : Contains(arg, K_steps) THEN "count"
    ELSE IF \E arg \in names : Contains(arg, K_tstep) THEN "step"
    ELSE "none"

\* the test of lines 166-172 on the names of args.__dict__
SelectMode(names) ==
    IF \E arg \in names : Contains(arg, K_tstep) THEN "step"
    ELSE IF \E arg \in names : Contains(arg, K_steps) THEN "count"
    ELSE "none"

\* ------------------------------------------------------------------ workspace

\* Path.suffix: from the last dot of the name, unless it leads or ends the name
Suffix(name) ==
    LET dots == {i \in 1..Len(name) : name[i] = "."}
        i == IF dots = {} THEN 0 ELSE CHOOSE d \in dots : \A e \in dots : e <= d
    IN  IF 1 < i /\ i < Len(name) THEN SubSeq(name, i, Len(name)) ELSE <<>>

\* str(Path(s)): a leading "./" is dropped
RECURSIVE PathStr(_)
PathStr(s) == IF StartsWith(s, <<".", "/">>) /\ Len(s) > 2 THEN PathStr(SubSeq(s, 3, Len(s))) ELSE s

\* Replace with count=1: only the first occurrence
RECURSIVE ReplaceFirst(_, _, _)
ReplaceFirst(text, old, new) ==
    IF Len(text) < Len(old) THEN text
    ELSE IF StartsWith(text, old)
         THEN new \o SubSeq(text, Len(old) + 1, Len(text))
         ELSE <<Head(text)>> \o ReplaceFirst(Tail(text), old, new)

\* str.replace(old, new): left to right, without overlap
RECURSIVE Replace(_, _, _)
Replace(text, old, new) ==
    IF Len(text) < Len(old) THEN text
    ELSE IF StartsWith(text, old)
         THEN new \o Replace(SubSeq(text, Len(old) + 1, Len(text)), old, new)
         ELSE <<Head(text)>> \o Replace(Tail(text), old, new)

\* f"T_{int(round(t)):04d}"
folder_name(t) == <<"T", "_">> \o Format04d(Round(t))

\* Mkdir that does not honour exist_ok
MkdirStrict(disk, name, exist_ok) ==
    IF name \in DOMAIN disk THEN "FileExistsError" ELSE ""

\* folder_path.mkdir(exist_ok=...): the exception it raises, or "" for none
Mkdir(disk, name, exist_ok) ==
    IF name \in DOMAIN disk /\ ~exist_ok THEN "FileExistsError" ELSE ""

EmptyDir == [p \in {} |-> [text |-> TRUE, content |-> <<>>]]

\* the directory at name once mkdir has run
DirAfterMkdir(disk, name) == IF name \in DOMAIN disk THEN disk[name] ELSE EmptyDir

\* lines 77-82: every entry of the base is copied over the workspace, files of
\* the same name overwritten and directories merged
CopyBase(folder, base_dir) ==
    [p \in (DOMAIN folder) \cup (DOMAIN base_dir) |->
        IF p \in DOMAIN base_dir THEN base_dir[p] ELSE folder[p]]

\* lines 47-56 on one file
ReplaceInFile(path, file, temperature) ==
    IF Suffix(path.name) \notin BinarySuffixes /\ file.text
    THEN [file EXCEPT !.content = Replace(file.content, TOKEN, IntToStr(Round(temperature)))]
    ELSE file

replace_temperature_strings(folder, temperature) ==
    [p \in DOMAIN folder |-> ReplaceInFile(p, folder[p], temperature)]

\* ------------------------------------------------------------------ state

VARIABLES
    cmdline,        \* the flags given on the command line: dest -> text
    platform,       \* sys.platform
    files,          \* the config files on disk: path -> lines
    disk,           \* the directories of the working directory: name -> directory
    binaries,       \* the paths the operating system can start as a process
    pc,             \* where main is: "start", "override", "mesh", "loop", "launch", "wait", "exit"
    args,           \* the argparse Namespace: attribute name -> value
    temperatures,   \* the mesh
    binary_path,    \* str(binary_path) of lines 178-182
    idx,            \* the position in the mesh of the for loop of line 184
    proc,           \* the running subprocesses: records [pos, cwd, binary]
    exit_status,    \* the exit status of the sweep, read when pc = "exit"
    error,          \* the exception or exit message that ended the sweep, "" for none
    mode,           \* the branch of lines 166-172 taken
    materialized,   \* history: the positions whose run_simulation got past line 85, in order
    launched,       \* history: the subprocesses started in this sweep, in order
    statuses,       \* history: the exit status of each subprocess of this sweep, in order
    runs,           \* history: how many times the tool has been started
    matCount,       \* history: workspace name -> how many times it was materialized
    snapshot        \* history: workspace name -> the base's files in it after the first time

env == <<cmdline, platform, files, binaries>>

hist == <<materialized, launched, statuses, runs, matCount, snapshot>>

vars == <<cmdline, platform, files, disk, binaries, pc, args, temperatures, binary_path,
          idx, proc, exit_status, error, mode, materialized, launched, statuses, runs,
          matCount, snapshot>>

\* ------------------------------------------------------------------ bounds and inputs

\* how many lines a config file has at most
MaxLines == 2

\* how many times the tool is started on the same working directory
MaxRuns == 2

Linux == <<"l", "i", "n", "u", "x">>

Win32 == <<"w", "i", "n", "3", "2">>

Sim == <<"s", "i", "m">>

Tpl == <<"t", "p", "l">>

Cfg == <<"c", "f", "g">>

\* a subprocess ends with status 0 or with a failure status
ExitStatuses == {0, 2}

\* what the binary writes to its standard output
LogOutput == <<"l", "o", "g">>

RECURSIVE SeqsUpTo(_, _)
SeqsUpTo(S, n) ==
    IF n = 0 THEN {<<>>}
    ELSE SeqsUpTo(S, n - 1) \cup {Append(q, x) : q \in {r \in SeqsUpTo(S, n - 1) : Len(r) = n - 1}, x \in S}

Fn(keys, vals) == [i \in {keys[j] : j \in 1..Len(keys)} |->
                      vals[CHOOSE j \in 1..Len(keys) : keys[j] = i]]

ConfigLines ==
    { <<"t", "m", "i", "n", "=", "1">>, <<"t", "m", "a", "x", " ", "=", " ", "3">>, <<"t", "s", "t", "e", "p", "=", "2">>, <<"t", "s", "t", "e", "p", "=", "0", ".", "5">>,
      <<"s", "t", "e", "p", "s", "=", "3">>, <<"b", "i", "n", "a", "r", "y", "=", "s", "i", "m">>, <<"b", "a", "s", "e", "=", "t", "p", "l">>, <<"#", "t", "m", "i", "n", "=", "9">>,
      <<"f", "o", "o", "=", "1">>, <<"t", "m", "i", "n", "=", "x">> }

P_in == [parent |-> "", name |-> <<"i", "n", ".", "d", "a", "t">>]

P_bin == [parent |-> "", name |-> <<"a", ".", "b", "i", "n">>]

P_sub == [parent |-> "sub", name |-> <<"p", "o", "s">>]

P_exe == [parent |-> "sub", name |-> <<"b", ".", "e", "x", "e">>]

TextFile(c) == [text |-> TRUE, content |-> c]

Contents ==
    { <<"T", "=", "T", "E", "M", "P", " ", "K">>, <<"T", "E", "M", "P", "T", "E", "M", "P">>, <<"T", "E", "M">>, <<"T", "E", "T", "E", "M", "P", "M", "P">>,
      <<"x">>, <<>> }

\* a file is text with one of the contents, or bytes that do not decode
FileChoices == {TextFile(c) : c \in Contents} \cup {[text |-> FALSE, content |-> TOKEN]}

PlainBase == Fn(<<P_in>>, <<TextFile(<<"T", "=", "T", "E", "M", "P", " ", "K">>)>>)

TplBase == Fn(<<P_sub>>, <<TextFile(<<"T", "E", "M", "P", "T", "E", "M", "P">>)>>)

Uppasd == <<"u", "p", "p", "a", "s", "d">>

UppasdExe == <<"u", "p", "p", "a", "s", "d", ".", "e", "x", "e">>

NoFn == [x \in {} |-> <<>>]

\* config-file resolution: a config file of up to MaxLines lines, read over a
\* command line that gives few, all or fractional values
CfgCmdlines ==
    { Fn(<<K_file, K_tmax>>, <<Cfg, <<"4">>>>),
      Fn(<<K_file, K_tmin, K_tmax, K_tstep, K_steps, K_binary, K_base>>,
         <<Cfg, <<"1", ".", "5">>, <<"4">>, <<"2", ".", "5">>, <<"4">>, Sim, Tpl>>),
      Fn(<<K_file, K_tmax, K_tstep>>, <<Cfg, <<"2">>, <<"0", ".", "5">>>>),
      Fn(<<K_file, K_tmax>>, <<<<"n", "o", "c", "f", "g">>, <<"4">>>>) }

InitCfg ==
    /\ cmdline \in CfgCmdlines
    /\ files \in {Fn(<<Cfg>>, <<lines>>) : lines \in SeqsUpTo(ConfigLines, MaxLines)}
    /\ disk = Fn(<<DefaultBase, Tpl>>, <<PlainBase, TplBase>>)
    /\ binaries = {Uppasd, Sim}
    /\ platform = Linux

\* mesh generation: the three numbers from the command line
MeshCmdlines ==
    {Fn(<<K_tmin, K_tmax, K_tstep>>, <<a, b, c>>) :
        a \in {<<"0">>, <<"1", ".", "5">>, <<"3">>}, b \in {<<"0">>, <<"2">>, <<"3", ".", "5">>},
        c \in {<<"0", ".", "5">>, <<"1">>, <<"1", ".", "5">>, <<"2">>, <<"-", "1">>, <<"0">>}}
    \cup {NoFn, Fn(<<K_steps>>, <<<<"3">>>>), Fn(<<K_tmin>>, <<<<"x">>>>)}

InitMesh ==
    /\ cmdline \in MeshCmdlines
    /\ files = NoFn
    /\ disk = Fn(<<DefaultBase>>, <<PlainBase>>)
    /\ binaries = {Uppasd}
    /\ platform = Linux

\* materialization: base directories of two files each
MatBases == UNION {[S -> FileChoices] : S \in {{P_in, P_bin}, {P_sub, P_exe}}}

MatCmdlines ==
    { Fn(<<K_tmin, K_tmax, K_tstep>>, <<<<"3", "1", "0", ".", "5">>, <<"3", "1", "1">>, <<"0", ".", "5">>>>),
      Fn(<<K_tmin, K_tmax, K_tstep>>, <<<<"-", "1", ".", "5">>, <<"-", "1", ".", "5">>, <<"1">>>>) }

InitMat ==
    /\ cmdline \in MatCmdlines
    /\ files = NoFn
    /\ disk \in {Fn(<<DefaultBase>>, <<b>>) : b \in MatBases}
    /\ binaries = {Uppasd}
    /\ platform = Linux

\* environment: the platform, whether the binary can be started, whether the
\* base directory is there
InitEnv ==
    /\ cmdline \in {NoFn, Fn(<<K_tmax, K_binary>>, <<<<"2", "0", "0">>, <<".", "/", "s", "i", "m", ".", "E", "X", "E">>>>)}
    /\ files = NoFn
    /\ disk \in {NoFn, Fn(<<DefaultBase>>, <<PlainBase>>)}
    /\ binaries \in SUBSET {Uppasd, UppasdExe, <<"s", "i", "m", ".", "E", "X", "E">>}
    /\ platform \in {Linux, Win32}

Init ==
    /\ InitCfg \/ InitMesh \/ InitMat \/ InitEnv
    /\ pc = "start"
    /\ args = NoFn
    /\ temperatures = <<>>
    /\ binary_path = <<>>
    /\ idx = 1
    /\ proc = {}
    /\ exit_status = 0
    /\ error = ""
    /\ mode = ""
    /\ materialized = <<>>
    /\ launched = <<>>
    /\ statuses = <<>>
    /\ runs = 1
    /\ matCount = NoFn
    /\ snapshot = NoFn

\* ------------------------------------------------------------------ main

\* lines 159-164: the conversions run in order and the first that fails raises
\* ValueError, the assignments before it done
override(ns, config) ==
    LET has(k) == k \in DOMAIN config
        c1 == IF has(K_tmin) THEN ParseFloat(config[K_tmin]) ELSE Value(ns[K_tmin])
        c2 == IF has(K_tmax) THEN ParseFloat(config[K_tmax]) ELSE Value(ns[K_tmax])
        i3 == IF has(K_tstep) THEN ParseInt(config[K_tstep])
              ELSE Value(IntOfFloat(ns[K_tstep]))
        c3 == [ok |-> i3.ok, val |-> FloatOfInt(i3.val)]
        c4 == IF has(K_steps) THEN ParseInt(config[K_steps]) ELSE Value(ns[K_steps])
        ok1 == c1.ok
        ok2 == ok1 /\ c2.ok
        ok3 == ok2 /\ c3.ok
        ok4 == ok3 /\ c4.ok
    IN  [ok |-> ok4,
         ns |-> [k \in DOMAIN ns |->
                    CASE k = K_tmin /\ ok1 -> c1.val
                      [] k = K_tmax /\ ok2 -> c2.val
                      [] k = K_tstep /\ ok3 -> c3.val
                      [] k = K_steps /\ ok4 -> c4.val
                      [] k \in {K_binary, K_base} /\ ok4 /\ has(k) -> config[k]
                      [] OTHER -> ns[k]]]

\* lines 178-182
resolve_binary(binary, plat) ==
    IF StartsWith(plat, <<"w", "i", "n">>) /\ ~EndsWith(Lower(PathStr(binary)), <<".", "e", "x", "e">>)
    THEN PathStr(binary) \o <<".", "e", "x", "e">>
    ELSE PathStr(binary)

\* iterdir that takes a missing directory for an empty one
iterdirLenient(d, base) ==
    [ok |-> TRUE, entries |-> IF base \in DOMAIN d THEN d[base] ELSE EmptyDir]

\* base_path.iterdir(): the entries of the base, or FileNotFoundError
iterdir(d, base) ==
    [ok |-> base \in DOMAIN d, entries |-> IF base \in DOMAIN d THEN d[base] ELSE EmptyDir]

\* subprocess.run without cwd: the subprocess runs in the sweep's own directory
RunCwdHere(folder) == <<".">>

\* cwd=folder_path
RunCwd(folder) == folder

\* check=False: no return code raises
CheckNever(status) == FALSE

\* check=True: a non-zero return code raises CalledProcessError
CheckFails(status) == status # 0

Exit(code, err) ==
    /\ pc' = "exit"
    /\ exit_status' = code
    /\ error' = err

\* lines 112-149
ParseArgs ==
    /\ pc = "start"
    /\ IF ArgsValid(cmdline)
       THEN /\ args' = parse_args(cmdline)
            /\ pc' = "override"
            /\ UNCHANGED <<exit_status, error>>
       ELSE /\ Exit(2, "argument error")
            /\ UNCHANGED args
    /\ UNCHANGED <<env, disk, temperatures, binary_path, idx, proc, mode, hist>>

\* lines 152-164
ConfigOverride ==
    /\ pc = "override"
    /\ IF args[K_file] = None
       THEN /\ pc' = "mesh"
            /\ UNCHANGED <<args, exit_status, error>>
       ELSE IF args[K_file] \notin DOMAIN files
       THEN /\ Exit(1, "FileNotFoundError")
            /\ UNCHANGED args
       ELSE LET r == override(args, parse_config_file(files[args[K_file]]))
            IN  /\ args' = r.ns
                /\ IF r.ok
                   THEN pc' = "mesh" /\ UNCHANGED <<exit_status, error>>
                   ELSE Exit(1, "ValueError")
    /\ UNCHANGED <<env, disk, temperatures, binary_path, idx, proc, mode, hist>>

\* lines 166-182
GenerateMesh ==
    /\ pc = "mesh"
    /\ mode' = SelectMode(DOMAIN args)
    /\ CASE mode' = "step" /\ args[K_tstep] = 0 ->
               /\ Exit(1, "arange: zero step")
               /\ UNCHANGED <<temperatures, binary_path>>
         [] mode' = "step" /\ args[K_tstep] # 0 ->
               /\ temperatures' = Arange(args[K_tmin], args[K_tmax] + args[K_tstep], args[K_tstep])
               /\ binary_path' = resolve_binary(args[K_binary], platform)
               /\ pc' = "loop"
               /\ UNCHANGED <<exit_status, error>>
         [] mode' = "count" /\ args[K_steps] < 0 ->
               /\ Exit(1, "ValueError")
               /\ UNCHANGED <<temperatures, binary_path>>
         [] mode' = "count" /\ args[K_steps] >= 0 ->
               /\ temperatures' = Linspace(args[K_tmin], args[K_tmax], args[K_steps])
               /\ binary_path' = resolve_binary(args[K_binary], platform)
               /\ pc' = "loop"
               /\ UNCHANGED <<exit_status, error>>
         [] OTHER ->
               /\ Exit(1, "No temperature step or number of steps provided.")
               /\ UNCHANGED <<temperatures, binary_path>>
    /\ UNCHANGED <<env, disk, args, idx, proc, hist>>

\* lines 184-185 and 71-85: the next temperature's workspace is materialized
Materialize ==
    /\ pc = "loop"
    /\ idx <= Len(temperatures)
    /\ LET t == temperatures[idx]
           name == folder_name(t)
           raised == Mkdir(disk, name, TRUE)
           folder == DirAfterMkdir(disk, name)
           base == iterdir(disk, args[K_base])
           done == replace_temperature_strings(CopyBase(folder, base.entries), t)
       IN  IF raised # ""
           THEN /\ Exit(1, raised)
                /\ UNCHANGED <<disk, materialized, matCount, snapshot>>
           ELSE IF ~base.ok
           THEN /\ Exit(1, "FileNotFoundError")
                /\ disk' = Put(disk, name, folder)
                /\ UNCHANGED <<materialized, matCount, snapshot>>
           ELSE /\ disk' = Put(disk, name, done)
                /\ pc' = "launch"
                /\ materialized' = Append(materialized, idx)
                /\ matCount' = Put(matCount, name,
                                   IF name \in DOMAIN matCount THEN matCount[name] + 1 ELSE 1)
                /\ snapshot' = IF name \in DOMAIN snapshot THEN snapshot
                               ELSE Put(snapshot, name,
                                        [p \in DOMAIN base.entries |-> done[p]])
                /\ UNCHANGED <<exit_status, error>>
    /\ UNCHANGED <<env, args, temperatures, binary_path, idx, proc, mode,
                   launched, statuses, runs>>

\* lines 88-95, up to the start of the subprocess: out.log is opened for
\* writing and the binary started in the workspace
Launch ==
    /\ pc = "launch"
    /\ LET name == folder_name(temperatures[idx])
       IN  /\ disk' = Put(disk, name, Put(disk[name], OutLog, TextFile(<<>>)))
           /\ IF binary_path \in binaries
              THEN /\ proc' = proc \cup {[pos |-> idx, cwd |-> RunCwd(name), binary |-> binary_path]}
                   /\ launched' = Append(launched,
                                         [pos |-> idx, cwd |-> RunCwd(name), binary |-> binary_path])
                   /\ pc' = "wait"
                   /\ UNCHANGED <<exit_status, error>>
              ELSE /\ Exit(1, "FileNotFoundError")
                   /\ UNCHANGED <<proc, launched>>
    /\ UNCHANGED <<env, args, temperatures, binary_path, idx, mode,
                   materialized, statuses, runs, matCount, snapshot>>

\* lines 89-95, the return of subprocess.run: the subprocess has written its
\* output to out.log and ended with some status
ProcessExit ==
    /\ pc = "wait"
    /\ \E status \in ExitStatuses :
        LET name == folder_name(temperatures[idx])
        IN  /\ disk' = Put(disk, name, Put(disk[name], OutLog, TextFile(LogOutput)))
            /\ proc' = {}
            /\ statuses' = Append(statuses, status)
            /\ IF CheckFails(status)
               THEN /\ Exit(1, "CalledProcessError")
                    /\ UNCHANGED idx
               ELSE /\ idx' = idx + 1
                    /\ pc' = "loop"
                    /\ UNCHANGED <<exit_status, error>>
    /\ UNCHANGED <<env, args, temperatures, binary_path, mode,
                   materialized, launched, runs, matCount, snapshot>>

\* the for loop of line 184 is exhausted and main returns
Finish ==
    /\ pc = "loop"
    /\ idx > Len(temperatures)
    /\ Exit(0, "")
    /\ UNCHANGED <<env, disk, args, temperatures, binary_path, idx, proc, mode, hist>>

\* the tool is started again with the same command line in the same working
\* directory, which holds what the earlier sweep left
Restart ==
    /\ pc = "exit"
    /\ runs < MaxRuns
    /\ runs' = runs + 1
    /\ pc' = "start"
    /\ args' = NoFn
    /\ temperatures' = <<>>
    /\ binary_path' = <<>>
    /\ idx' = 1
    /\ proc' = {}
    /\ exit_status' = 0
    /\ error' = ""
    /\ mode' = ""
    /\ materialized' = <<>>
    /\ launched' = <<>>
    /\ statuses' = <<>>
    /\ UNCHANGED <<env, disk, matCount, snapshot>>

Next ==
    \/ ParseArgs
    \/ ConfigOverride
    \/ GenerateMesh
    \/ Materialize
    \/ Launch
    \/ ProcessExit
    \/ Finish
    \/ Restart

Spec == Init /\ [][Next]_vars

\* ------------------------------------------------------------------ claims

\* the mesh has been generated and the loop of line 184 is running
InLoop == pc \in {"loop", "launch", "wait"}

Last(q) == q[Len(q)]

\* position k of the mesh failed: its subprocess ended with a non-zero status,
\* or could not be started after its workspace was materialized
FailedAt(k) ==
    \/ k <= Len(statuses) /\ statuses[k] # 0
    \/ k = Len(materialized) /\ k > Len(launched) /\ pc = "exit"

\* C1: stop at first failure.  If the binary cannot be started or exits with a
\* non-zero status on position k, the sweep has ended with a non-zero exit
\* status and nothing is materialized or launched for a position after k; the
\* sweep ends with exit status zero only if every temperature's run ended with
\* status zero.
C1_StopAtFirstFailure ==
    /\ \A k \in 1..Len(temperatures) :
          FailedAt(k) =>
              /\ pc = "exit"
              /\ exit_status # 0
              /\ \A i \in 1..Len(materialized) : materialized[i] <= k
              /\ \A i \in 1..Len(launched) : launched[i].pos <= k
    /\ (pc = "exit" /\ exit_status = 0) =>
          /\ Len(statuses) = Len(temperatures)
          /\ \A k \in 1..Len(statuses) : statuses[k] = 0

C1_Witness ==
    /\ pc = "exit"
    /\ statuses = <<0, 0, 2>>
    /\ Len(temperatures) >= 4
    /\ exit_status = 1
    /\ Len(materialized) = 3

\* the base directory args.base names is not on disk
BaseMissing == args # NoFn /\ args[K_base] \notin DOMAIN disk

\* C2: if the base directory does not exist, run_simulation fails during
\* materialization before any subprocess is launched, no out.log is created in
\* the workspace, and the failure ends the whole sweep with a non-zero status.
C2_BaseMissingAborts ==
    BaseMissing =>
        /\ pc \notin {"launch", "wait"}
        /\ launched = <<>>
        /\ proc = {}
        /\ materialized = <<>>
        /\ \A d \in DOMAIN disk : OutLog \notin DOMAIN disk[d]
        /\ (pc = "exit" /\ temperatures # <<>>) =>
              exit_status # 0 /\ error = "FileNotFoundError"

C2_Witness ==
    /\ BaseMissing
    /\ pc = "exit"
    /\ error = "FileNotFoundError"
    /\ temperatures # <<>>
    /\ folder_name(temperatures[1]) \in DOMAIN disk
    /\ binary_path \in binaries

\* the step-mode mesh has been computed from a positive step
StepMesh == mode = "step" /\ pc # "mesh" /\ args[K_tstep] > 0

StrictlyIncreasing(q) == \A i \in 1..(Len(q) - 1) : q[i] < q[i + 1]

\* C3 as stated: for tstep > 0 the step-mode mesh is strictly increasing,
\* starts at tmin, and its last element is <= tmax + tstep and > tmax.
C3_AsStated ==
    StepMesh =>
        /\ StrictlyIncreasing(temperatures)
        /\ temperatures # <<>>
        /\ temperatures[1] = args[K_tmin]
        /\ Last(temperatures) <= args[K_tmax] + args[K_tstep]
        /\ Last(temperatures) > args[K_tmax]

\* C3 as amended: for tstep > 0 the step-mode mesh is strictly increasing; it
\* is empty exactly when tmin >= tmax + tstep, and otherwise it starts at tmin
\* and its last element is <= tmax + tstep (in fact below it) and >= tmax.
C3_StepMesh ==
    StepMesh =>
        /\ StrictlyIncreasing(temperatures)
        /\ (temperatures = <<>>) <=> (args[K_tmin] >= args[K_tmax] + args[K_tstep])
        /\ temperatures # <<>> =>
              /\ temperatures[1] = args[K_tmin]
              /\ Last(temperatures) <= args[K_tmax] + args[K_tstep]
              /\ Last(temperatures) < args[K_tmax] + args[K_tstep]
              /\ Last(temperatures) >= args[K_tmax]

C3_Witness ==
    /\ StepMesh
    /\ Len(temperatures) >= 3
    /\ Last(temperatures) > args[K_tmax]
    /\ args[K_tstep] % 2 = 1

RecognizedKeys == {K_tmin, K_tmax, K_tstep, K_steps, K_binary, K_base}

\* the config file named by --file has been read and lines 159-164 have run:
\* to the end, or up to a ValueError
OverrideDone ==
    /\ args # NoFn
    /\ args[K_file] \in DOMAIN files
    /\ mode = ""
    /\ pc = "mesh" \/ (pc = "exit" /\ error = "ValueError")

TheConfig == parse_config_file(files[args[K_file]])

\* C4: when a config file is given, every recognized key in it resolves to
\* the value the same text gives through the CLI flag, whatever the command
\* line gave; unrecognized keys raise no error and change no field.
C4_FileAsCli ==
    (/\ OverrideDone
     /\ \A k \in RecognizedKeys \cap DOMAIN TheConfig : Convert(ArgTypes[k], TheConfig[k]).ok)
    =>
        /\ error = ""
        /\ \A k \in RecognizedKeys \cap DOMAIN TheConfig :
              args[k] = Convert(ArgTypes[k], TheConfig[k]).val

\* C5: within one sweep any two different positions of the mesh get different
\* workspace names T_<round(t), width 4>.
C5_DistinctWorkspaces ==
    InLoop =>
        \A i, j \in 1..Len(temperatures) :
            i # j => folder_name(temperatures[i]) # folder_name(temperatures[j])

\* a file replace_temperature_strings reads and rewrites
Substituted(path, file) == Suffix(path.name) \notin BinarySuffixes /\ file.text

Occurrences(text) ==
    {i \in 1..(Len(text) - Len(TOKEN) + 1) : SubSeq(text, i, i + Len(TOKEN) - 1) = TOKEN}

\* the text with each of the occurrences occ replaced by r, the last one first
RECURSIVE SubstituteAt(_, _, _)
SubstituteAt(text, occ, r) ==
    IF occ = {} THEN text
    ELSE LET i == CHOOSE x \in occ : \A y \in occ : y <= x
         IN  SubstituteAt(SubSeq(text, 1, i - 1) \o r \o SubSeq(text, i + Len(TOKEN), Len(text)),
                          occ \ {i}, r)

\* r is the decimal string, without padding, of an integer nearest to t
NearestDecimal(r, t) ==
    /\ ParseInt(r).ok
    /\ 2 * ParseInt(r).val - t \in -1..1
    /\ Len(Unsigned(r)) > 1 => Head(Unsigned(r)) # "0"
    /\ Head(r) # "+"

\* C7: after a workspace is materialized for t, every text file in it that
\* came from the base and has no .exe or .bin extension is the base's file with
\* every occurrence of TEMP replaced by the unpadded decimal string of t
\* rounded to the nearest integer; .exe and .bin files, files that do not
\* decode and files without the token are the base's files unchanged.
C7_Substitution ==
    pc = "launch" =>
        LET t == temperatures[idx]
            ws == disk[folder_name(t)]
            b == disk[args[K_base]]
        IN  /\ NearestDecimal(IntToStr(Round(t)), t)
            /\ \A p \in DOMAIN b :
                  /\ p \in DOMAIN ws
                  /\ ws[p].text = b[p].text
                  /\ IF Suffix(p.name) \notin BinarySuffixes /\ b[p].text
                     THEN ws[p].content =
                              SubstituteAt(b[p].content, Occurrences(b[p].content),
                                           IntToStr(Round(t)))
                     ELSE ws[p] = b[p]
                  /\ Occurrences(b[p].content) = {} => ws[p] = b[p]

C7_Witness ==
    /\ pc = "launch"
    /\ temperatures[idx] = 621
    /\ P_in \in DOMAIN disk[DefaultBase]
    /\ disk[DefaultBase][P_in] = TextFile(<<"T", "=", "T", "E", "M", "P", " ", "K">>)
    /\ disk[folder_name(621)][P_in] = TextFile(<<"T", "=", "3", "1", "0", " ", "K">>)
    /\ disk[DefaultBase][P_bin] = TextFile(<<"T", "E", "M", "P", "T", "E", "M", "P">>)
    /\ disk[folder_name(621)][P_bin] = TextFile(<<"T", "E", "M", "P", "T", "E", "M", "P">>)

\* C8: the sweep is sequential in mesh order.  A subprocess is launched only
\* for a materialized position, one per position, with the position's
\* workspace as working directory; at most one runs at a time; and while the
\* loop is at position idx every earlier position's subprocess has ended with
\* status zero and its workspace holds an out.log.
C8_Sequential ==
    /\ \A i \in 1..Len(materialized) : materialized[i] = i
    /\ Len(launched) <= Len(materialized)
    /\ Len(statuses) <= Len(launched)
    /\ Len(launched) <= Len(statuses) + 1
    /\ \A i \in 1..Len(launched) :
          /\ launched[i].pos = i
          /\ launched[i].cwd = folder_name(temperatures[i])
          /\ launched[i].cwd \in DOMAIN disk
          /\ launched[i].binary = binary_path
    /\ Cardinality(proc) <= 1
    /\ (proc # {}) <=> (pc = "wait")
    /\ pc = "wait" => Len(launched) = idx /\ Len(statuses) = idx - 1
    /\ pc = "launch" => Len(materialized) = idx /\ Len(launched) = idx - 1
    /\ InLoop =>
          \A j \in 1..(idx - 1) :
              /\ j <= Len(statuses)
              /\ statuses[j] = 0
              /\ \A r \in proc : r.pos # j
              /\ OutLog \in DOMAIN disk[folder_name(temperatures[j])]
    /\ (pc = "exit" /\ exit_status = 0) => Len(launched) = Len(temperatures)

C8_Witness ==
    /\ pc = "wait"
    /\ idx = 3
    /\ statuses = <<0, 0>>
    /\ Len(launched) = 3
    /\ runs = 1

C10_AbsentKeysKept ==
    (OverrideDone /\ pc = "mesh") =>
        \A k \in DOMAIN ArgTypes :
            k \notin DOMAIN TheConfig => args[k] = parse_args(cmdline)[k]

====
